---- MODULE Spec2Model ----
\* Fishbone diagram editor: the reducer of src/src/hooks/useFishboneData.js
\* (the Node Store and its commands), the spreadsheet bridge of
\* src/src/utils/excelUtils.js and the Sidebar's asynchronous import of
\* src/src/components/FishboneCanvas.jsx.
\*
\* Numbers: coordinates are JavaScript numbers; Math.random() is drawn from
\* multiples of 0.05 (given in percent), for which every coordinate the
\* reducer computes is an integer.
\* Ids: uuidv4() is modelled as a fresh value on every call (a counter); the
\* six ids of defaultCategories are drawn once, when the module is loaded.
EXTENDS Integers, Sequences, FiniteSets, TLC

VARIABLES
    problemStatement,   \* state.problemStatement
    categories,         \* state.categories
    nextId,             \* the value the next uuidv4() call returns
    nextGen,            \* the number of the next generateId() call
    pending,            \* the file reads that have started and not finished, each
                        \* with (history) the state it started in
    dragState,          \* FishboneCanvas dragState
    hoveredNode,        \* FishboneCanvas hoveredNode
    editDialog,         \* FishboneCanvas editDialog
    grab,               \* history: the pointer position of the last mouse-down on
                        \* a node and the number of the step it was
    replacedAt,         \* history: the number of the last step that replaced the
                        \* diagram (CLEAR_DIAGRAM, LOAD_TEMPLATE, LOAD_FROM_DATA)
    selected,           \* history: number of files selected for import so far
    templateIds,        \* history: category ids installed by LOAD_TEMPLATE so far
    before,             \* history: the state the last command was applied to
    lastCmd,            \* history: the last command or event
    steps               \* history: number of commands and events so far

vars == <<problemStatement, categories, nextId, nextGen, pending,
          dragState, hoveredNode, editDialog, grab, replacedAt,
          selected, templateIds, before, lastCmd, steps>>

\* The component state of the canvas (and the history of its drag).
surface == <<dragState, hoveredNode, editDialog, grab>>

\* ---------------------------------------------------------------- bounds

\* Number of commands and events in a run.
MaxSteps == 4
\* Commands address the first MaxTemplateTargets template categories only.
MaxTemplateTargets == 1

\* Number of rows of the sheets drawn from SheetRows.
MaxRows == 2
\* Number of such sheets selected for import in a run.
MaxSheets == 1

\* Math.random() samples (x draw, y draw), in percent.
RandomPairs == {<<0, 95>>, <<50, 5>>}
\* Texts typed into the edit dialog.
RenameTexts == {"A"}
CommentTexts == {"c"}
StatementTexts == {"Why did X fail?", ""}
\* (x, y) a drag moves a node to.
DragPoints == {<<0, 25>>}
\* Pointer positions of mouse events, relative to the svg.
PointerPoints == {<<210, 95>>, <<260, 140>>}

\* ---------------------------------------------------------------- helpers

Range(s) == {s[i] : i \in DOMAIN s}

RECURSIVE SumSeq(_)
SumSeq(s) == IF s = <<>> THEN 0 ELSE Head(s) + SumSeq(Tail(s))

RECURSIVE Flatten(_)
Flatten(ss) == IF ss = <<>> THEN <<>> ELSE Head(ss) \o Flatten(Tail(ss))

\* { ...obj, ...updates }
Merge(obj, updates) ==
    [f \in DOMAIN obj \cup DOMAIN updates |->
        IF f \in DOMAIN updates THEN updates[f] ELSE obj[f]]

NoUpdates == [f \in {} |-> 0]
NoFile == [kind |-> "none", rows |-> <<>>]

\* ---------------------------------------------------------------- reducer state

defaultCategories == <<
    [id |-> 1, name |-> "People", x |-> 200, y |-> 100, spineX |-> 250, causes |-> <<>>],
    [id |-> 2, name |-> "Process", x |-> 400, y |-> 100, spineX |-> 350, causes |-> <<>>],
    [id |-> 3, name |-> "Materials", x |-> 600, y |-> 100, spineX |-> 450, causes |-> <<>>],
    [id |-> 4, name |-> "Machines", x |-> 200, y |-> 400, spineX |-> 550, causes |-> <<>>],
    [id |-> 5, name |-> "Measurements", x |-> 400, y |-> 400, spineX |-> 650, causes |-> <<>>],
    [id |-> 6, name |-> "Environment", x |-> 600, y |-> 400, spineX |-> 750, causes |-> <<>>] >>

TemplateSize == Len(defaultCategories)

initialState == [problemStatement |-> "Problem Statement", categories |-> <<>>]

State == [problemStatement |-> problemStatement, categories |-> categories]

\* The id a call of uuidv4() returns.
\* Mutant: every call returns the same id.
uuidv4Repeats == TemplateSize + 1
uuidv4 == nextId

\* ---------------------------------------------------------------- reducer

SetProblemStatementR(state, text) ==
    [state EXCEPT !.problemStatement = text]

\* Mutant: the categories are emptied, the problem statement is kept.
ClearDiagramKeepsStatement(state) == [state EXCEPT !.categories = <<>>]
ClearDiagramR(state) == initialState

\* Mutant: the template is installed over the initial state.
LoadTemplateResets(state) == [initialState EXCEPT !.categories = defaultCategories]
LoadTemplateR(state) == [state EXCEPT !.categories = defaultCategories]

newCategory(state, id, rx, ry) ==
    [id |-> id, name |-> "New Category",
     x |-> 300 + 2 * rx, y |-> 200 + 2 * ry,
     spineX |-> 300 + Len(state.categories) * 100,
     causes |-> <<>>]

\* Mutant: the new category is put first.
AddCategoryFirst(state, id, rx, ry) ==
    [state EXCEPT !.categories = <<newCategory(state, id, rx, ry)>> \o @]
AddCategoryR(state, id, rx, ry) ==
    [state EXCEPT !.categories = Append(@, newCategory(state, id, rx, ry))]

\* Mutant: a category that moves takes its causes along.
UpdateCategoryCarriesCauses(state, id, updates) ==
    [state EXCEPT !.categories =
        [i \in 1..Len(@) |->
            IF @[i].id = id
            THEN Merge(Merge(@[i], updates),
                       [causes |-> [j \in 1..Len(@[i].causes) |->
                            IF "x" \in DOMAIN updates
                            THEN Merge(@[i].causes[j],
                                       [x |-> @[i].causes[j].x + updates.x - @[i].x])
                            ELSE @[i].causes[j]]])
            ELSE @[i]]]
UpdateCategoryR(state, id, updates) ==
    [state EXCEPT !.categories =
        [i \in 1..Len(@) |-> IF @[i].id = id THEN Merge(@[i], updates) ELSE @[i]]]

\* Mutant: the filter's test is inverted.
DeleteCategoryKeepsOnly(state, id) ==
    [state EXCEPT !.categories = SelectSeq(@, LAMBDA cat : cat.id = id)]
DeleteCategoryR(state, id) ==
    [state EXCEPT !.categories = SelectSeq(@, LAMBDA cat : cat.id # id)]

newCause(cat, id, rx, ry) ==
    [id |-> id, name |-> "New Cause",
     x |-> cat.x + (rx - 50), y |-> cat.y + (ry - 50),
     comment |-> "", subcauses |-> <<>>]

AddCauseR(state, categoryId, id, rx, ry) ==
    [state EXCEPT !.categories =
        [i \in 1..Len(@) |->
            IF @[i].id = categoryId
            THEN Merge(@[i], [causes |-> Append(@[i].causes, newCause(@[i], id, rx, ry))])
            ELSE @[i]]]

\* Mutant: the updates are merged into every cause of the category.
UpdateCauseAll(state, categoryId, causeId, updates) ==
    [state EXCEPT !.categories =
        [i \in 1..Len(@) |->
            IF @[i].id = categoryId
            THEN Merge(@[i], [causes |->
                    [j \in 1..Len(@[i].causes) |-> Merge(@[i].causes[j], updates)]])
            ELSE @[i]]]
UpdateCauseR(state, categoryId, causeId, updates) ==
    [state EXCEPT !.categories =
        [i \in 1..Len(@) |->
            IF @[i].id = categoryId
            THEN Merge(@[i], [causes |->
                    [j \in 1..Len(@[i].causes) |->
                        IF @[i].causes[j].id = causeId
                        THEN Merge(@[i].causes[j], updates)
                        ELSE @[i].causes[j]]])
            ELSE @[i]]]

\* Mutant: the cause is removed from every category, whatever categoryId says.
DeleteCauseUnscoped(state, categoryId, causeId) ==
    [state EXCEPT !.categories =
        [i \in 1..Len(@) |->
            Merge(@[i], [causes |->
                SelectSeq(@[i].causes, LAMBDA cause : cause.id # causeId)])]]
DeleteCauseR(state, categoryId, causeId) ==
    [state EXCEPT !.categories =
        [i \in 1..Len(@) |->
            IF @[i].id = categoryId
            THEN Merge(@[i], [causes |->
                    SelectSeq(@[i].causes, LAMBDA cause : cause.id # causeId)])
            ELSE @[i]]]

\* Mutant: a subcause is spread about its cause as a cause is about its
\* category.
newSubcauseWide(cause, id, rx, ry) ==
    [id |-> id, name |-> "New Subcause",
     x |-> cause.x + (rx - 50), y |-> cause.y + (ry - 50),
     comment |-> ""]
newSubcause(cause, id, rx, ry) ==
    [id |-> id, name |-> "New Subcause",
     x |-> cause.x + ((rx - 50) * 3) \div 5, y |-> cause.y + ((ry - 50) * 3) \div 5,
     comment |-> ""]

AddSubcauseR(state, categoryId, causeId, id, rx, ry) ==
    [state EXCEPT !.categories =
        [i \in 1..Len(@) |->
            IF @[i].id = categoryId
            THEN Merge(@[i], [causes |->
                    [j \in 1..Len(@[i].causes) |->
                        IF @[i].causes[j].id = causeId
                        THEN Merge(@[i].causes[j], [subcauses |->
                                Append(@[i].causes[j].subcauses,
                                       newSubcause(@[i].causes[j], id, rx, ry))])
                        ELSE @[i].causes[j]]])
            ELSE @[i]]]

UpdateSubcauseR(state, categoryId, causeId, subcauseId, updates) ==
    [state EXCEPT !.categories =
        [i \in 1..Len(@) |->
            IF @[i].id = categoryId
            THEN Merge(@[i], [causes |->
                    [j \in 1..Len(@[i].causes) |->
                        IF @[i].causes[j].id = causeId
                        THEN Merge(@[i].causes[j], [subcauses |->
                                [k \in 1..Len(@[i].causes[j].subcauses) |->
                                    IF @[i].causes[j].subcauses[k].id = subcauseId
                                    THEN Merge(@[i].causes[j].subcauses[k], updates)
                                    ELSE @[i].causes[j].subcauses[k]]])
                        ELSE @[i].causes[j]]])
            ELSE @[i]]]

DeleteSubcauseR(state, categoryId, causeId, subcauseId) ==
    [state EXCEPT !.categories =
        [i \in 1..Len(@) |->
            IF @[i].id = categoryId
            THEN Merge(@[i], [causes |->
                    [j \in 1..Len(@[i].causes) |->
                        IF @[i].causes[j].id = causeId
                        THEN Merge(@[i].causes[j], [subcauses |->
                                SelectSeq(@[i].causes[j].subcauses,
                                          LAMBDA subcause : subcause.id # subcauseId)])
                        ELSE @[i].causes[j]]])
            ELSE @[i]]]

\* Mutant: the imported categories are added to those of the diagram.
LoadFromDataAdds(state, payload) ==
    [Merge(state, payload) EXCEPT !.categories = state.categories \o @]
LoadFromDataR(state, payload) == Merge(state, payload)

\* default: return state
\* Mutant: an action of unknown type resets the diagram.
UnknownActionResets(state) == initialState
UnknownActionR(state) == state

\* fishboneReducer(state, action): `id` is what uuidv4() returns and (rx, ry)
\* what the two Math.random() calls return, for the commands that call them.
fishboneReducer(state, a, id, rx, ry) ==
    CASE a.type = "SET_PROBLEM_STATEMENT" -> SetProblemStatementR(state, a.text)
      [] a.type = "CLEAR_DIAGRAM" -> ClearDiagramR(state)
      [] a.type = "LOAD_TEMPLATE" -> LoadTemplateR(state)
      [] a.type = "ADD_CATEGORY" -> AddCategoryR(state, id, rx, ry)
      [] a.type = "UPDATE_CATEGORY" -> UpdateCategoryR(state, a.categoryId, a.updates)
      [] a.type = "DELETE_CATEGORY" -> DeleteCategoryR(state, a.categoryId)
      [] a.type = "ADD_CAUSE" -> AddCauseR(state, a.categoryId, id, rx, ry)
      [] a.type = "UPDATE_CAUSE" -> UpdateCauseR(state, a.categoryId, a.causeId, a.updates)
      [] a.type = "DELETE_CAUSE" -> DeleteCauseR(state, a.categoryId, a.causeId)
      [] a.type = "ADD_SUBCAUSE" -> AddSubcauseR(state, a.categoryId, a.causeId, id, rx, ry)
      [] a.type = "UPDATE_SUBCAUSE" ->
            UpdateSubcauseR(state, a.categoryId, a.causeId, a.subcauseId, a.updates)
      [] a.type = "DELETE_SUBCAUSE" ->
            DeleteSubcauseR(state, a.categoryId, a.causeId, a.subcauseId)
      [] a.type = "LOAD_FROM_DATA" -> LoadFromDataR(state, a.payload)
      [] OTHER -> UnknownActionR(state)

\* ---------------------------------------------------------------- reading the tree

CausesOf(cats) == Flatten([i \in 1..Len(cats) |-> cats[i].causes])
SubcausesOf(cats) ==
    Flatten([i \in 1..Len(CausesOf(cats)) |-> CausesOf(cats)[i].subcauses])

\* The ids of all entities, one entry per entity.
AllIds(cats) ==
    [i \in 1..Len(cats) |-> cats[i].id]
    \o [i \in 1..Len(CausesOf(cats)) |-> CausesOf(cats)[i].id]
    \o [i \in 1..Len(SubcausesOf(cats)) |-> SubcausesOf(cats)[i].id]

CountEntities(cats) == Len(AllIds(cats))

CategoryIds(cats) == {cats[i].id : i \in 1..Len(cats)}

\* Does the command's path name a node of the state?
HasCategory(cats, categoryId) == \E i \in 1..Len(cats) : cats[i].id = categoryId
HasCause(cats, categoryId, causeId) ==
    \E i \in 1..Len(cats) :
        /\ cats[i].id = categoryId
        /\ \E j \in 1..Len(cats[i].causes) : cats[i].causes[j].id = causeId
HasSubcause(cats, categoryId, causeId, subcauseId) ==
    \E i \in 1..Len(cats) :
        /\ cats[i].id = categoryId
        /\ \E j \in 1..Len(cats[i].causes) :
            /\ cats[i].causes[j].id = causeId
            /\ \E k \in 1..Len(cats[i].causes[j].subcauses) :
                cats[i].causes[j].subcauses[k].id = subcauseId

\* Does the path of the command name a node of the state?
PathCommands ==
    {"UPDATE_CATEGORY", "DELETE_CATEGORY", "ADD_CAUSE",
     "UPDATE_CAUSE", "DELETE_CAUSE", "ADD_SUBCAUSE",
     "UPDATE_SUBCAUSE", "DELETE_SUBCAUSE"}
Resolves(cats, a) ==
    CASE a.type \in {"UPDATE_CATEGORY", "DELETE_CATEGORY", "ADD_CAUSE"} ->
            HasCategory(cats, a.categoryId)
      [] a.type \in {"UPDATE_CAUSE", "DELETE_CAUSE", "ADD_SUBCAUSE"} ->
            HasCause(cats, a.categoryId, a.causeId)
      [] a.type \in {"UPDATE_SUBCAUSE", "DELETE_SUBCAUSE"} ->
            HasSubcause(cats, a.categoryId, a.causeId, a.subcauseId)
      [] OTHER -> TRUE

\* ---------------------------------------------------------------- spreadsheet bridge

\* A numeric cell and a text cell of a sheet; a row holds text in Category,
\* Cause, Subcause and Comments and a cell in X and Y.
Num(n) == [t |-> "n", v |-> n]
Text(s) == [t |-> "s", v |-> s]

\* parseFloat(cell) || 0: a number is itself, anything parseFloat turns into
\* NaN is 0.
NumericTexts == [s \in {"12"} |-> 12]
\* Mutant: what parseFloat makes no number of is read as 1.
parseFloatOrOne(cell) ==
    IF cell.t = "n" THEN cell.v
    ELSE IF cell.v \in DOMAIN NumericTexts THEN NumericTexts[cell.v] ELSE 1
parseFloatOrZero(cell) ==
    IF cell.t = "n" THEN cell.v
    ELSE IF cell.v \in DOMAIN NumericTexts THEN NumericTexts[cell.v] ELSE 0

\* value || fallback, on strings.
OrElse(value, fallback) == IF value = "" THEN fallback ELSE value

Row(category, cause, subcause, comments, x, y) ==
    [Category |-> category, Cause |-> cause, Subcause |-> subcause,
     Comments |-> comments, X |-> x, Y |-> y]

\* Mutant: the subcauses are written last to first.
subcauseRowsReversed(category, cause) ==
    [k \in 1..Len(cause.subcauses) |->
        LET subcause == cause.subcauses[Len(cause.subcauses) + 1 - k] IN
        Row(category.name, cause.name, subcause.name, OrElse(subcause.comment, ""),
            Num(subcause.x), Num(subcause.y))]
subcauseRows(category, cause) ==
    [k \in 1..Len(cause.subcauses) |->
        Row(category.name, cause.name, cause.subcauses[k].name,
            OrElse(cause.subcauses[k].comment, ""),
            Num(cause.subcauses[k].x), Num(cause.subcauses[k].y))]

causeRows(category) ==
    Flatten([j \in 1..Len(category.causes) |->
        <<Row(category.name, category.causes[j].name, "",
              OrElse(category.causes[j].comment, ""),
              Num(category.causes[j].x), Num(category.causes[j].y))>>
        \o subcauseRows(category, category.causes[j])])

\* The rows exportToExcel(state) writes to the sheet.
\* Mutant: the problem statement row is written after the categories.
exportStatementLast(state) ==
    Flatten([i \in 1..Len(state.categories) |->
        <<Row(state.categories[i].name, "", "", "",
              Num(state.categories[i].x), Num(state.categories[i].y))>>
        \o causeRows(state.categories[i])])
    \o <<Row("PROBLEM STATEMENT", state.problemStatement, "", "", Num(800), Num(250))>>
exportToExcel(state) ==
    <<Row("PROBLEM STATEMENT", state.problemStatement, "", "", Num(800), Num(250))>>
    \o Flatten([i \in 1..Len(state.categories) |->
        <<Row(state.categories[i].name, "", "", "",
              Num(state.categories[i].x), Num(state.categories[i].y))>>
        \o causeRows(state.categories[i])])

\* generateId(): the n-th random id; distinct from every uuid.
generateId(n) == 0 - n

\* Index of the first element of s named `name`, 0 when there is none
\* (categories.has / categories.get by name, causes.find by name).
FindByName(s, name) ==
    IF \E i \in 1..Len(s) : s[i].name = name
    THEN CHOOSE i \in 1..Len(s) :
            s[i].name = name /\ \A j \in 1..(i - 1) : s[j].name # name
    ELSE 0

\* categories.set(categoryName, {...}) when the map has no such key: acc
\* holds problemStatement, the values of the `categories` map in insertion
\* order, and the number of the next generateId() call.
\* Mutant: the entry is set again, at this row's position, on every row.
ensureCategoryOverwrites(acc, row, x, y) ==
    LET known == FindByName(acc.categories, row.Category) IN
    IF known # 0
    THEN [acc EXCEPT !.categories[known].x = x, !.categories[known].y = y]
    ELSE [acc EXCEPT
            !.categories = Append(@,
                [id |-> generateId(acc.gen), name |-> row.Category,
                 x |-> x, y |-> y, causes |-> <<>>]),
            !.gen = @ + 1]
\* Mutant: every row that names a category sets a new entry.
ensureCategoryAgain(acc, row, x, y) ==
    [acc EXCEPT
        !.categories = Append(@,
            [id |-> generateId(acc.gen), name |-> row.Category,
             x |-> x, y |-> y, causes |-> <<>>]),
        !.gen = @ + 1]
ensureCategory(acc, row, x, y) ==
    IF FindByName(acc.categories, row.Category) # 0 THEN acc
    ELSE [acc EXCEPT
            !.categories = Append(@,
                [id |-> generateId(acc.gen), name |-> row.Category,
                 x |-> x, y |-> y, causes |-> <<>>]),
            !.gen = @ + 1]

\* The cause a row creates when its category has none of that name.
\* Mutant: the row's comment goes to the cause whatever the row's depth.
createdCauseTakesComment(row, id, x, y) ==
    [id |-> id, name |-> row.Cause, x |-> x, y |-> y,
     comment |-> row.Comments, subcauses |-> <<>>]
createdCause(row, id, x, y) ==
    [id |-> id, name |-> row.Cause, x |-> x, y |-> y,
     comment |-> IF row.Subcause # "" THEN "" ELSE row.Comments,
     subcauses |-> <<>>]

\* cause.subcauses.push(subcause)
\* Mutant: a subcause is found or created by name, as a cause is.
pushSubcauseOnce(cause, row, id, x, y) ==
    IF FindByName(cause.subcauses, row.Subcause) # 0 THEN cause
    ELSE [cause EXCEPT !.subcauses = Append(@,
            [id |-> id, name |-> row.Subcause, x |-> x, y |-> y,
             comment |-> row.Comments])]
pushSubcause(cause, row, id, x, y) ==
    [cause EXCEPT !.subcauses = Append(@,
        [id |-> id, name |-> row.Subcause, x |-> x, y |-> y,
         comment |-> row.Comments])]

\* One turn of the forEach of parseExcelData.
parseRow(acc, row) ==
    IF row.Category = "PROBLEM STATEMENT"
    THEN [acc EXCEPT !.problemStatement = OrElse(row.Cause, "Problem Statement")]
    ELSE IF row.Category = "" THEN acc
    ELSE
    LET x == parseFloatOrZero(row.X)
        y == parseFloatOrZero(row.Y)
        acc1 == ensureCategory(acc, row, x, y)
        ci == FindByName(acc1.categories, row.Category)
        category == acc1.categories[ci]
        found == FindByName(category.causes, row.Cause)
        \* find or create the cause
        causes1 == IF found # 0 THEN category.causes
                   ELSE Append(category.causes,
                               createdCause(row, generateId(acc1.gen), x, y))
        gen2 == IF found # 0 THEN acc1.gen ELSE acc1.gen + 1
        ki == FindByName(causes1, row.Cause)
        cause == causes1[ki]
        cause2 == IF row.Subcause # ""
                  THEN pushSubcause(cause, row, generateId(gen2), x, y)
                  ELSE IF row.Comments # "" /\ cause.comment = ""
                  THEN [cause EXCEPT !.comment = row.Comments]
                  ELSE cause
        gen3 == IF row.Subcause # "" THEN gen2 + 1 ELSE gen2
    IN  IF row.Cause = "" THEN acc1
        ELSE [acc1 EXCEPT
                !.categories[ci].causes = [causes1 EXCEPT ![ki] = cause2],
                !.gen = gen3]

RECURSIVE parseRows(_, _)
parseRows(acc, rows) ==
    IF rows = <<>> THEN acc ELSE parseRows(parseRow(acc, Head(rows)), Tail(rows))

\* parseExcelData(jsonData), with `gen` the number of the next generateId()
\* call: the state it returns, and the number of the call after it.
parseExcelData(jsonData, gen) ==
    LET acc == parseRows([problemStatement |-> "Problem Statement",
                          categories |-> <<>>, gen |-> gen], jsonData)
    IN  [data |-> [problemStatement |-> acc.problemStatement,
                   categories |-> acc.categories],
         gen |-> acc.gen]

\* A file the user selects: its bytes cannot be read (reader.onerror), or
\* XLSX.read throws on them (after `rows` of it were decoded), or they are a
\* workbook whose first sheet holds `rows`.
Unreadable == [kind |-> "unreadable", rows |-> <<>>]
Malformed(rows) == [kind |-> "malformed", rows |-> rows]
Sheet(rows) == [kind |-> "sheet", rows |-> rows]

\* Mutant: a file that fails part-way resolves with what was parsed so far.
importResolvesPartial(file, gen) ==
    IF file.kind = "unreadable"
    THEN [resolved |-> FALSE, data |-> NoUpdates, gen |-> gen]
    ELSE [resolved |-> TRUE,
          data |-> parseExcelData(file.rows, gen).data,
          gen |-> parseExcelData(file.rows, gen).gen]
\* importFromExcel(file): the promise resolves with parseExcelData's result,
\* or rejects.
importFromExcel(file, gen) ==
    IF file.kind = "sheet"
    THEN [resolved |-> TRUE,
          data |-> parseExcelData(file.rows, gen).data,
          gen |-> parseExcelData(file.rows, gen).gen]
    ELSE [resolved |-> FALSE, data |-> NoUpdates, gen |-> gen]

\* ---------------------------------------------------------------- commands

\* An action object; the fields a command does not carry are 0 / empty.
\* (History: the file and the start state of an import, the pointer position
\* of a mouse event.)
Cmd(type) ==
    [type |-> type, categoryId |-> 0, causeId |-> 0, subcauseId |-> 0,
     updates |-> NoUpdates, text |-> "", payload |-> NoUpdates, file |-> NoFile,
     startedIn |-> NoUpdates, pointer |-> <<0, 0>>]

\* The partial updates the interaction surface sends: a rename, a drag
\* position, a comment.
Updates ==
    {[name |-> t] : t \in RenameTexts}
    \cup {[x |-> p[1], y |-> p[2]] : p \in DragPoints}
    \cup {[comment |-> c] : c \in CommentTexts}

\* Ids a payload may carry at each level: those of the nodes on screen (the
\* handlers build a payload from a rendered node), and 0, the id of a node
\* that is not, or no longer, in the state.
Targeted(ids) ==
    {id \in ids : id > TemplateSize \/ id <= MaxTemplateTargets} \cup {0}
CategoryTargets == Targeted(CategoryIds(categories))
CauseTargets ==
    Targeted({CausesOf(categories)[i].id : i \in 1..Len(CausesOf(categories))})
SubcauseTargets ==
    Targeted({SubcausesOf(categories)[i].id : i \in 1..Len(SubcausesOf(categories))})

\* dispatch(action): the reducer runs synchronously; `used` is the number of
\* uuidv4() calls it makes.
Dispatch(a, rx, ry, used) ==
    LET next == fishboneReducer(State, a, uuidv4, rx, ry) IN
    /\ steps < MaxSteps
    /\ problemStatement' = next.problemStatement
    /\ categories' = next.categories
    /\ nextId' = nextId + used
    /\ before' = State
    /\ lastCmd' = a
    /\ steps' = steps + 1
    /\ templateIds' = IF a.type = "LOAD_TEMPLATE"
                      THEN templateIds \cup CategoryIds(next.categories)
                      ELSE templateIds
    /\ replacedAt' = IF a.type \in {"CLEAR_DIAGRAM", "LOAD_TEMPLATE", "LOAD_FROM_DATA"}
                     THEN steps + 1
                     ELSE replacedAt

\* handleEditSave on the problem statement: the edit dialog's text replaces it.
SetProblemStatement ==
    \E t \in StatementTexts :
        /\ Dispatch([Cmd("SET_PROBLEM_STATEMENT") EXCEPT !.text = t], 0, 0, 0)
        /\ UNCHANGED <<nextGen, pending, selected, surface>>

ClearDiagram ==
    /\ Dispatch(Cmd("CLEAR_DIAGRAM"), 0, 0, 0)
    /\ UNCHANGED <<nextGen, pending, selected, surface>>

LoadTemplate ==
    /\ Dispatch(Cmd("LOAD_TEMPLATE"), 0, 0, 0)
    /\ UNCHANGED <<nextGen, pending, selected, surface>>

AddCategory ==
    \E r \in RandomPairs :
        /\ Dispatch(Cmd("ADD_CATEGORY"), r[1], r[2], 1)
        /\ UNCHANGED <<nextGen, pending, selected, surface>>

UpdateCategory ==
    \E c \in CategoryTargets, u \in Updates :
        /\ Dispatch([Cmd("UPDATE_CATEGORY") EXCEPT !.categoryId = c, !.updates = u],
                    0, 0, 0)
        /\ UNCHANGED <<nextGen, pending, selected, surface>>

DeleteCategory ==
    \E c \in CategoryTargets :
        /\ Dispatch([Cmd("DELETE_CATEGORY") EXCEPT !.categoryId = c], 0, 0, 0)
        /\ UNCHANGED <<nextGen, pending, selected, surface>>

AddCause ==
    \E c \in CategoryTargets, r \in RandomPairs :
        /\ Dispatch([Cmd("ADD_CAUSE") EXCEPT !.categoryId = c], r[1], r[2],
                    IF HasCategory(categories, c) THEN 1 ELSE 0)
        /\ UNCHANGED <<nextGen, pending, selected, surface>>

UpdateCause ==
    \E c \in CategoryTargets, k \in CauseTargets, u \in Updates :
        /\ Dispatch([Cmd("UPDATE_CAUSE") EXCEPT
                        !.categoryId = c, !.causeId = k, !.updates = u], 0, 0, 0)
        /\ UNCHANGED <<nextGen, pending, selected, surface>>

DeleteCause ==
    \E c \in CategoryTargets, k \in CauseTargets :
        /\ Dispatch([Cmd("DELETE_CAUSE") EXCEPT !.categoryId = c, !.causeId = k],
                    0, 0, 0)
        /\ UNCHANGED <<nextGen, pending, selected, surface>>

AddSubcause ==
    \E c \in CategoryTargets, k \in CauseTargets, r \in RandomPairs :
        /\ Dispatch([Cmd("ADD_SUBCAUSE") EXCEPT !.categoryId = c, !.causeId = k],
                    r[1], r[2], IF HasCause(categories, c, k) THEN 1 ELSE 0)
        /\ UNCHANGED <<nextGen, pending, selected, surface>>

UpdateSubcause ==
    \E c \in CategoryTargets, k \in CauseTargets, s \in SubcauseTargets, u \in Updates :
        /\ Dispatch([Cmd("UPDATE_SUBCAUSE") EXCEPT
                        !.categoryId = c, !.causeId = k, !.subcauseId = s,
                        !.updates = u], 0, 0, 0)
        /\ UNCHANGED <<nextGen, pending, selected, surface>>

DeleteSubcause ==
    \E c \in CategoryTargets, k \in CauseTargets, s \in SubcauseTargets :
        /\ Dispatch([Cmd("DELETE_SUBCAUSE") EXCEPT
                        !.categoryId = c, !.causeId = k, !.subcauseId = s], 0, 0, 0)
        /\ UNCHANGED <<nextGen, pending, selected, surface>>

\* ---------------------------------------------------------------- sidebar: export, import

\* Something the user or the browser does that dispatches nothing.
Event(a) ==
    /\ steps < MaxSteps
    /\ lastCmd' = a
    /\ before' = State
    /\ steps' = steps + 1
    /\ UNCHANGED <<problemStatement, categories, nextId, templateIds, replacedAt>>

\* handleExportToExcel: the sheet is written to a file; the state is only read.
ExportToExcel ==
    /\ Event([Cmd("EXPORT") EXCEPT !.file = Sheet(exportToExcel(State))])
    /\ UNCHANGED <<nextGen, pending, selected, surface>>

SampleRows == <<
    Row("PROBLEM STATEMENT", "Late deliveries", "", "", Num(800), Num(250)),
    Row("People", "", "", "", Num(200), Num(100)),
    Row("People", "Training", "", "no budget", Num(150), Num(60)),
    Row("People", "Training", "Onboarding", "", Num(140), Num(30)) >>

SampleFiles ==
    {Unreadable, Malformed(SubSeq(SampleRows, 1, 2)), Sheet(SampleRows)}

RemoveAt(s, i) == SubSeq(s, 1, i - 1) \o SubSeq(s, i + 1, Len(s))

\* Rows a sheet may hold: a category row; two cause rows of one cause with
\* different comments and positions (one Y typed as text); a subcause row
\* with a comment, an X that is no number and no Y; a row without Category.
SheetRows == {
    Row("People", "", "", "", Num(200), Num(100)),
    Row("People", "Training", "", "no budget", Num(150), Num(60)),
    Row("People", "Training", "", "no time", Num(10), Text("12")),
    Row("People", "Training", "Onboarding", "too short", Text("abc"), Text("")),
    Row("", "Training", "Onboarding", "", Num(1), Num(2)) }

\* A sheet with several siblings at every level.
BranchingRows == <<
    Row("PROBLEM STATEMENT", "Late deliveries", "", "", Num(800), Num(250)),
    Row("People", "", "", "", Num(200), Num(100)),
    Row("People", "Training", "", "no budget", Num(150), Num(60)),
    Row("People", "Training", "Onboarding", "too short", Num(140), Num(30)),
    Row("People", "Training", "Mentoring", "", Num(160), Num(30)),
    Row("People", "Staffing", "", "", Num(250), Num(60)),
    Row("Process", "", "", "", Num(400), Num(100)) >>

RowSeqs(n) == UNION {[1..m -> SheetRows] : m \in 0..n}

SheetFiles == {Sheet(rows) : rows \in RowSeqs(MaxRows)} \cup {Sheet(BranchingRows)}

\* handleFileSelect up to its await: importFromExcel(file) starts the read.
startImport(files) ==
    \E f \in files :
        /\ Event([Cmd("FILE_SELECTED") EXCEPT !.file = f])
        /\ pending' = Append(pending, [file |-> f, startedIn |-> State])
        /\ selected' = selected + 1
        /\ UNCHANGED <<nextGen, surface>>

handleFileSelect == startImport(SampleFiles)

\* handleFileSelect on a workbook: any of the sheets above.
handleSheetSelect == selected < MaxSheets /\ startImport(SheetFiles)

\* handleFileSelect after its await, the promise resolved: LOAD_FROM_DATA.
importResolved ==
    \E i \in 1..Len(pending) :
        LET r == importFromExcel(pending[i].file, nextGen) IN
        /\ r.resolved
        /\ Dispatch([Cmd("LOAD_FROM_DATA") EXCEPT
                        !.payload = r.data, !.file = pending[i].file,
                        !.startedIn = pending[i].startedIn], 0, 0, 0)
        /\ nextGen' = r.gen
        /\ pending' = RemoveAt(pending, i)
        /\ UNCHANGED <<selected, surface>>

\* handleFileSelect after its await, the promise rejected: the catch block
\* logs and alerts.
importRejected ==
    \E i \in 1..Len(pending) :
        LET r == importFromExcel(pending[i].file, nextGen) IN
        /\ ~r.resolved
        /\ Event([Cmd("IMPORT_ERROR") EXCEPT
                    !.file = pending[i].file, !.startedIn = pending[i].startedIn])
        /\ nextGen' = r.gen
        /\ pending' = RemoveAt(pending, i)
        /\ UNCHANGED <<selected, surface>>

\* ---------------------------------------------------------------- canvas: drag, hover, edit

\* What a handler captures of a rendered node: { ...node, type, categoryId,
\* causeId }; NoNode is null.
Captured(node, type, categoryId, causeId) ==
    [type |-> type, id |-> node.id, categoryId |-> categoryId, causeId |-> causeId,
     name |-> node.name, x |-> node.x, y |-> node.y]
NoNode ==
    [type |-> "none", id |-> 0, categoryId |-> 0, causeId |-> 0,
     name |-> "", x |-> 0, y |-> 0]

\* The nodes on the canvas, as their handlers capture them.
RenderedNodes ==
    {Captured(categories[i], "category", 0, 0) : i \in 1..Len(categories)}
    \cup UNION {{Captured(categories[i].causes[j], "cause", categories[i].id, 0) :
                    j \in 1..Len(categories[i].causes)} : i \in 1..Len(categories)}
    \cup UNION {UNION {{Captured(categories[i].causes[j].subcauses[k], "subcause",
                                 categories[i].id, categories[i].causes[j].id) :
                            k \in 1..Len(categories[i].causes[j].subcauses)} :
                        j \in 1..Len(categories[i].causes)} : i \in 1..Len(categories)}

\* The nodes the pointer goes to.
PointedNodes == {n \in RenderedNodes : n.id \in Targeted({n.id})}

NotDragging == [isDragging |-> FALSE, nodeData |-> NoNode, offset |-> <<0, 0>>]
DialogClosed == [open |-> FALSE, type |-> "", data |-> NoNode]

\* The UPDATE_* command on a captured node (category: payload.id is the
\* node; cause: categoryId and the node; subcause: categoryId, causeId and
\* the node); a captured node of no type dispatches nothing.
UpdateOf(node, updates) ==
    CASE node.type = "category" ->
            [Cmd("UPDATE_CATEGORY") EXCEPT !.categoryId = node.id, !.updates = updates]
      [] node.type = "cause" ->
            [Cmd("UPDATE_CAUSE") EXCEPT
                !.categoryId = node.categoryId, !.causeId = node.id,
                !.updates = updates]
      [] node.type = "subcause" ->
            [Cmd("UPDATE_SUBCAUSE") EXCEPT
                !.categoryId = node.categoryId, !.causeId = node.causeId,
                !.subcauseId = node.id, !.updates = updates]

DeleteOf(node) ==
    CASE node.type = "category" ->
            [Cmd("DELETE_CATEGORY") EXCEPT !.categoryId = node.id]
      [] node.type = "cause" ->
            [Cmd("DELETE_CAUSE") EXCEPT
                !.categoryId = node.categoryId, !.causeId = node.id]
      [] node.type = "subcause" ->
            [Cmd("DELETE_SUBCAUSE") EXCEPT
                !.categoryId = node.categoryId, !.causeId = node.causeId,
                !.subcauseId = node.id]

AddSubnodeOf(node) ==
    CASE node.type = "category" ->
            [Cmd("ADD_CAUSE") EXCEPT !.categoryId = node.id]
      [] node.type = "cause" ->
            [Cmd("ADD_SUBCAUSE") EXCEPT
                !.categoryId = node.categoryId, !.causeId = node.id]

\* offset: { x: x - node.x, y: y - node.y }
\* Mutant: no offset is captured.
dragOffsetNone(p, node) == <<0, 0>>
dragOffset(p, node) == <<p[1] - node.x, p[2] - node.y>>

\* handleMouseDown on a node, the pointer at p (relative to the svg).
handleMouseDown ==
    \E node \in PointedNodes, p \in PointerPoints :
        /\ Event([Cmd("MOUSE_DOWN") EXCEPT !.pointer = p])
        /\ dragState' = [isDragging |-> TRUE, nodeData |-> node,
                         offset |-> dragOffset(p, node)]
        /\ grab' = [pointer |-> p, step |-> steps + 1]
        /\ UNCHANGED <<nextGen, pending, selected, hoveredNode, editDialog>>

\* handleMouseMove on the svg, the pointer at p.
handleMouseMove ==
    \E p \in PointerPoints :
        /\ IF ~dragState.isDragging
           THEN Event([Cmd("MOUSE_MOVE") EXCEPT !.pointer = p])
           ELSE Dispatch([UpdateOf(dragState.nodeData,
                                   [x |-> p[1] - dragState.offset[1],
                                    y |-> p[2] - dragState.offset[2]])
                            EXCEPT !.pointer = p], 0, 0, 0)
        /\ UNCHANGED <<nextGen, pending, selected, surface>>

\* handleMouseUp on the svg.
handleMouseUp ==
    /\ Event(Cmd("MOUSE_UP"))
    /\ dragState' = NotDragging
    /\ UNCHANGED <<nextGen, pending, selected, hoveredNode, editDialog, grab>>

\* onMouseEnter / onMouseLeave of a node.
nodeMouseEnter ==
    \E node \in PointedNodes :
        /\ Event(Cmd("MOUSE_ENTER"))
        /\ hoveredNode' = node
        /\ UNCHANGED <<nextGen, pending, selected, dragState, editDialog, grab>>

nodeMouseLeave ==
    /\ hoveredNode # NoNode
    /\ Event(Cmd("MOUSE_LEAVE"))
    /\ hoveredNode' = NoNode
    /\ UNCHANGED <<nextGen, pending, selected, dragState, editDialog, grab>>

\* The buttons of the hover toolbar, rendered while hoveredNode is set.
toolbarEdit ==
    /\ hoveredNode # NoNode
    /\ Event(Cmd("EDIT_OPENED"))
    /\ editDialog' = [open |-> TRUE, type |-> hoveredNode.type, data |-> hoveredNode]
    /\ UNCHANGED <<nextGen, pending, selected, dragState, hoveredNode, grab>>

toolbarDelete ==
    /\ hoveredNode # NoNode
    /\ Dispatch(DeleteOf(hoveredNode), 0, 0, 0)
    /\ UNCHANGED <<nextGen, pending, selected, surface>>

toolbarAddSubnode ==
    /\ hoveredNode.type \in {"category", "cause"}
    /\ \E r \in RandomPairs :
        Dispatch(AddSubnodeOf(hoveredNode), r[1], r[2],
                 IF Resolves(categories, AddSubnodeOf(hoveredNode)) THEN 1 ELSE 0)
    /\ UNCHANGED <<nextGen, pending, selected, surface>>

\* HoverToolbar.handleCommentSave.
handleCommentSave ==
    /\ hoveredNode # NoNode
    /\ \E c \in CommentTexts : Dispatch(UpdateOf(hoveredNode, [comment |-> c]), 0, 0, 0)
    /\ UNCHANGED <<nextGen, pending, selected, surface>>

\* handleEditSave on a node: the dialog's text becomes the node's name.
handleEditSave ==
    /\ editDialog.open
    /\ \E t \in RenameTexts : Dispatch(UpdateOf(editDialog.data, [name |-> t]), 0, 0, 0)
    /\ editDialog' = DialogClosed
    /\ UNCHANGED <<nextGen, pending, selected, dragState, hoveredNode, grab>>

\* ---------------------------------------------------------------- specification

Init ==
    /\ problemStatement = initialState.problemStatement
    /\ categories = initialState.categories
    /\ nextId = TemplateSize + 1
    /\ nextGen = 1
    /\ pending = <<>>
    /\ dragState = NotDragging
    /\ hoveredNode = NoNode
    /\ editDialog = DialogClosed
    /\ grab = [pointer |-> <<0, 0>>, step |-> 0]
    /\ replacedAt = 0
    /\ selected = 0
    /\ templateIds = {}
    /\ before = initialState
    /\ lastCmd = Cmd("@@INIT")
    /\ steps = 0

Next ==
    \/ SetProblemStatement
    \/ ClearDiagram
    \/ LoadTemplate
    \/ AddCategory
    \/ UpdateCategory
    \/ DeleteCategory
    \/ AddCause
    \/ UpdateCause
    \/ DeleteCause
    \/ AddSubcause
    \/ UpdateSubcause
    \/ DeleteSubcause
    \/ ExportToExcel

Spec == Init /\ [][Next]_vars

\* The sidebar's import beside the commands of the sidebar and the canvas.
NextImport ==
    \/ handleFileSelect
    \/ importResolved
    \/ importRejected
    \/ SetProblemStatement
    \/ AddCategory
    \/ AddCause
    \/ DeleteCategory

SpecImport == Init /\ [][NextImport]_vars

\* The spreadsheet bridge: workbooks are imported, the diagram is exported.
NextSheet ==
    \/ handleSheetSelect
    \/ importResolved
    \/ ExportToExcel

SpecSheet == Init /\ [][NextSheet]_vars

\* Categories are added to and deleted from the empty diagram.
NextCategories ==
    \/ AddCategory
    \/ DeleteCategory

SpecCategories == Init /\ [][NextCategories]_vars

\* Dragging nodes on the canvas, beside the commands that replace or
\* remove them.
NextDrag ==
    \/ handleMouseDown
    \/ handleMouseMove
    \/ handleMouseUp
    \/ LoadTemplate
    \/ AddCategory
    \/ DeleteCategory
    \/ AddCause

SpecDrag == Init /\ [][NextDrag]_vars

\* The hover toolbar and the edit dialog.
NextHover ==
    \/ nodeMouseEnter
    \/ nodeMouseLeave
    \/ toolbarEdit
    \/ toolbarDelete
    \/ toolbarAddSubnode
    \/ handleCommentSave
    \/ handleEditSave
    \/ AddCategory
    \/ LoadTemplate

SpecHover == Init /\ [][NextHover]_vars

\* ---------------------------------------------------------------- claims

\* A node without its children, with its level and the id of its parent.
CategoryNode(cat) == <<"category", 0, Merge(cat, [causes |-> <<>>])>>
CauseNode(cat, cause) == <<"cause", cat.id, Merge(cause, [subcauses |-> <<>>])>>
SubcauseNode(cause, subcause) == <<"subcause", cause.id, subcause>>

SubcauseNodes(cause) ==
    {SubcauseNode(cause, cause.subcauses[k]) : k \in 1..Len(cause.subcauses)}
CauseSubtree(cat, cause) == {CauseNode(cat, cause)} \cup SubcauseNodes(cause)
CategorySubtree(cat) ==
    {CategoryNode(cat)}
    \cup UNION {CauseSubtree(cat, cat.causes[j]) : j \in 1..Len(cat.causes)}
NodeSet(cats) == UNION {CategorySubtree(cats[i]) : i \in 1..Len(cats)}

SubtreeIds(nodes) == {n[3].id : n \in nodes}

\* Number of entities in the subtree of a category / of a cause.
CategorySize(cat) ==
    1 + Len(cat.causes) + SumSeq([j \in 1..Len(cat.causes) |-> Len(cat.causes[j].subcauses)])
CauseSize(cause) == 1 + Len(cause.subcauses)

\* C1: in every reachable state no two entities, at any level, share an id
\* (so every cause id occurs under one category, every subcause id under
\* one cause).
C1_IdsUnique ==
    Cardinality(Range(AllIds(categories))) = Len(AllIds(categories))

C1_Witness ==
    /\ templateIds # {}
    /\ Len(categories) > TemplateSize
    /\ Len(CausesOf(categories)) >= 1
    /\ Len(SubcausesOf(categories)) >= 1

\* C2 (as claimed): a LOAD_TEMPLATE command installs category ids that no
\* earlier LOAD_TEMPLATE command of the run installed.
C2_TemplateIdsFresh ==
    [][lastCmd'.type = "LOAD_TEMPLATE"
        => CategoryIds(categories') \cap templateIds = {}]_vars

\* C3: DELETE_CATEGORY on a category with N causes and M subcauses removes
\* exactly N+M+1 entities, DELETE_CAUSE on a cause with K subcauses exactly
\* K+1; no entity of the subtree remains, every other entity remains with
\* the fields, level and parent it had.
C3_DeleteSubtree ==
    /\ lastCmd.type = "DELETE_CATEGORY" =>
        \A i \in 1..Len(before.categories) :
            before.categories[i].id = lastCmd.categoryId =>
                LET cat == before.categories[i] IN
                /\ CountEntities(categories)
                     = CountEntities(before.categories) - CategorySize(cat)
                /\ SubtreeIds(CategorySubtree(cat)) \cap Range(AllIds(categories)) = {}
                /\ NodeSet(categories) = NodeSet(before.categories) \ CategorySubtree(cat)
    /\ lastCmd.type = "DELETE_CAUSE" =>
        \A i \in 1..Len(before.categories) :
            before.categories[i].id = lastCmd.categoryId =>
                \A j \in 1..Len(before.categories[i].causes) :
                    before.categories[i].causes[j].id = lastCmd.causeId =>
                        LET cat == before.categories[i]
                            cause == cat.causes[j] IN
                        /\ CountEntities(categories)
                             = CountEntities(before.categories) - CauseSize(cause)
                        /\ SubtreeIds(CauseSubtree(cat, cause))
                             \cap Range(AllIds(categories)) = {}
                        /\ NodeSet(categories)
                             = NodeSet(before.categories) \ CauseSubtree(cat, cause)

\* A category holding a cause that holds a subcause was deleted, and other
\* categories were in the state.
C3_Witness ==
    /\ lastCmd.type = "DELETE_CATEGORY"
    /\ Len(before.categories) >= 2
    /\ \E i \in 1..Len(before.categories) :
        /\ before.categories[i].id = lastCmd.categoryId
        /\ Len(before.categories[i].causes) >= 1
        /\ CategorySize(before.categories[i]) >= 3

\* The spine's horizontal span on the canvas.
canvasWidth == 1200
minSpineX == 50
maxSpineX == canvasWidth - 200

\* C5 (as claimed): no reachable state holds a category whose spineX lies
\* outside [minSpineX, maxSpineX].
C5_SpineXInRange ==
    \A i \in 1..Len(categories) :
        /\ categories[i].spineX >= minSpineX
        /\ categories[i].spineX <= maxSpineX

\* C6: an Update*, Delete* or Add-child command whose path does not resolve
\* leaves problemStatement and categories value-equal to the prior state.
C6_UnresolvedIsNoOp ==
    (lastCmd.type \in PathCommands /\ ~Resolves(before.categories, lastCmd))
        => State = before

\* The cause named by the command exists, under another category than the
\* (existing) one the command names.
C6_Witness ==
    /\ lastCmd.type = "DELETE_CAUSE"
    /\ HasCategory(before.categories, lastCmd.categoryId)
    /\ ~HasCause(before.categories, lastCmd.categoryId, lastCmd.causeId)
    /\ \E c \in CategoryIds(before.categories) :
        HasCause(before.categories, c, lastCmd.causeId)

TemplateNames ==
    <<"People", "Process", "Materials", "Machines", "Measurements", "Environment">>

\* C7: LOAD_TEMPLATE on any state yields exactly the 6 template categories,
\* in order, each with zero causes, and leaves problemStatement unchanged.
C7_LoadTemplate ==
    lastCmd.type = "LOAD_TEMPLATE" =>
        /\ Len(categories) = 6
        /\ [i \in 1..Len(categories) |-> categories[i].name] = TemplateNames
        /\ \A i \in 1..Len(categories) : categories[i].causes = <<>>
        /\ problemStatement = before.problemStatement

\* The template was loaded over a state whose template categories had been
\* given causes and whose problem statement had been edited.
C7_Witness ==
    /\ lastCmd.type = "LOAD_TEMPLATE"
    /\ before.problemStatement # initialState.problemStatement
    /\ \E i \in 1..Len(before.categories) :
        /\ before.categories[i].id \in templateIds
        /\ before.categories[i].causes # <<>>

\* C8: CLEAR_DIAGRAM yields the empty DiagramState (no categories, the
\* default problem statement), and applying it again changes nothing.
C8_ClearDiagram ==
    lastCmd.type = "CLEAR_DIAGRAM" =>
        /\ categories = <<>>
        /\ problemStatement = "Problem Statement"
        /\ fishboneReducer(State, Cmd("CLEAR_DIAGRAM"), uuidv4, 0, 0) = State

C8_Witness ==
    /\ lastCmd.type = "CLEAR_DIAGRAM"
    /\ before.categories # <<>>
    /\ before.problemStatement # "Problem Statement"

\* Names and coordinates agree at every level, and comments at the levels
\* whose entities are created with one (causes, subcauses); ids may differ.
SameSubcauses(a, b) ==
    /\ Len(a) = Len(b)
    /\ \A k \in 1..Len(a) :
        /\ a[k].name = b[k].name /\ a[k].x = b[k].x /\ a[k].y = b[k].y
        /\ a[k].comment = b[k].comment
SameCauses(a, b) ==
    /\ Len(a) = Len(b)
    /\ \A j \in 1..Len(a) :
        /\ a[j].name = b[j].name /\ a[j].x = b[j].x /\ a[j].y = b[j].y
        /\ a[j].comment = b[j].comment
        /\ SameSubcauses(a[j].subcauses, b[j].subcauses)
SameTree(a, b) ==
    /\ Len(a) = Len(b)
    /\ \A i \in 1..Len(a) :
        /\ a[i].name = b[i].name /\ a[i].x = b[i].x /\ a[i].y = b[i].y
        /\ SameCauses(a[i].causes, b[i].causes)

UniqueCauseNames(cats) ==
    \A i \in 1..Len(cats) :
        \A j1, j2 \in 1..Len(cats[i].causes) :
            cats[i].causes[j1].name = cats[i].causes[j2].name => j1 = j2

\* C4 (as claimed): importing the sheet exported from a state whose cause
\* names are unique within each category yields a tree with the same names,
\* coordinates and comments at every level.
C4_RoundTrip ==
    (lastCmd.type = "EXPORT" /\ UniqueCauseNames(categories))
        => /\ importFromExcel(lastCmd.file, nextGen).resolved
           /\ SameTree(importFromExcel(lastCmd.file, nextGen).data.categories, categories)

\* C9: a rejected import leaves problemStatement and categories as they were,
\* and LOAD_FROM_DATA is only ever dispatched for a file that was read and
\* parsed to its end, with the result of parsing all its rows.
C9_FailedImportChangesNothing ==
    /\ lastCmd.type = "IMPORT_ERROR" => State = before
    /\ lastCmd.type = "LOAD_FROM_DATA" =>
        /\ lastCmd.file.kind = "sheet"
        /\ State = lastCmd.payload
        /\ problemStatement = parseExcelData(lastCmd.file.rows, 1).data.problemStatement
        /\ SameTree(categories, parseExcelData(lastCmd.file.rows, 1).data.categories)

\* The file failed after part of it was decoded, and the diagram was not empty.
C9_Witness ==
    /\ lastCmd.type = "IMPORT_ERROR"
    /\ lastCmd.file.kind = "malformed"
    /\ lastCmd.file.rows # <<>>
    /\ categories # <<>>

\* C10 (as claimed): the state LOAD_FROM_DATA replaces is the state the
\* import's file read started in: nothing changed it while the read was
\* pending.
C10_NoChangeWhilePending ==
    lastCmd.type = "LOAD_FROM_DATA" => before = lastCmd.startedIn

\* C11 (as claimed): at most one file read is pending at any time.
C11_OneImportInFlight == Len(pending) <= 1

\* The sequence s without the elements outside `kept`.
Keep(s, kept) == SelectSeq(s, LAMBDA e : e \in kept)
IsPrefix(s, t) == Len(s) <= Len(t) /\ SubSeq(t, 1, Len(s)) = s

IdsOf(s) == [i \in 1..Len(s) |-> s[i].id]
ById(s, id) == s[CHOOSE i \in 1..Len(s) : s[i].id = id]

\* The nodes of `old` that are still in `new` are in `new` in the order they
\* have in `old`, at one level.
OrderKept(old, new) == IdsOf(new) = Keep(IdsOf(old), Range(IdsOf(new)))
\* ... and at every level.
OrderKeptInTree(old, new) ==
    /\ OrderKept(old, new)
    /\ \A i \in 1..Len(new) :
        LET c == new[i]  o == ById(old, c.id) IN
        /\ OrderKept(o.causes, c.causes)
        /\ \A j \in 1..Len(c.causes) :
            OrderKept(ById(o.causes, c.causes[j].id).subcauses, c.causes[j].subcauses)

\* The siblings of `old` are the first siblings of `new`, in the same
\* order, at every level: what was added was added last.
AddedLast(old, new) ==
    /\ IsPrefix(IdsOf(old), IdsOf(new))
    /\ \A i \in 1..Len(old) :
        /\ IsPrefix(IdsOf(old[i].causes), IdsOf(new[i].causes))
        /\ \A j \in 1..Len(old[i].causes) :
            IsPrefix(IdsOf(old[i].causes[j].subcauses),
                     IdsOf(new[i].causes[j].subcauses))

DistinctCategoryNames(cats) ==
    \A i1, i2 \in 1..Len(cats) : cats[i1].name = cats[i2].name => i1 = i2

NamesOf(s) == [i \in 1..Len(s) |-> s[i].name]

\* The names of the tree, level by level, in sibling order.
NameTree(cats) ==
    [i \in 1..Len(cats) |->
        <<cats[i].name,
          [j \in 1..Len(cats[i].causes) |->
              <<cats[i].causes[j].name, NamesOf(cats[i].causes[j].subcauses)>>]>>]

\* s is t with some elements left out: the elements of s are in t, in the
\* order they have in s.
RECURSIVE IsSubseq(_, _)
IsSubseq(s, t) ==
    IF s = <<>> THEN TRUE
    ELSE IF t = <<>> THEN FALSE
    ELSE IF Head(s) = Head(t) THEN IsSubseq(Tail(s), Tail(t))
    ELSE IsSubseq(s, Tail(t))

\* Every name can be written to a sheet and read back: none is empty, no
\* category is called as the problem statement row is.
AllNamed(cats) ==
    /\ \A i \in 1..Len(cats) : cats[i].name \notin {"", "PROBLEM STATEMENT"}
    /\ \A j \in 1..Len(CausesOf(cats)) : CausesOf(cats)[j].name # ""
    /\ \A k \in 1..Len(SubcausesOf(cats)) : SubcausesOf(cats)[k].name # ""

\* C13: with category names pairwise distinct and cause names unique per
\* category, the categories imported from the exported sheet are in the
\* order of the exported categories, the causes of each in the order of its
\* exported causes, the subcauses of each cause in the order of its exported
\* subcauses.
C13_RoundTripOrder ==
    (/\ lastCmd.type = "EXPORT"
     /\ DistinctCategoryNames(categories)
     /\ UniqueCauseNames(categories)) =>
        LET imported == importFromExcel(lastCmd.file, nextGen).data.categories IN
        /\ IsSubseq(NamesOf(imported), NamesOf(categories))
        /\ \A i \in 1..Len(imported) :
            LET cat == categories[FindByName(categories, imported[i].name)] IN
            /\ IsSubseq(NamesOf(imported[i].causes), NamesOf(cat.causes))
            /\ \A j \in 1..Len(imported[i].causes) :
                LET cause == cat.causes[FindByName(cat.causes, imported[i].causes[j].name)]
                IN  IsSubseq(NamesOf(imported[i].causes[j].subcauses),
                             NamesOf(cause.subcauses))
        /\ AllNamed(categories) => NameTree(imported) = NameTree(categories)

\* The exported diagram has several categories, a category with several
\* causes and a cause with several subcauses.
C13_Witness ==
    /\ lastCmd.type = "EXPORT"
    /\ DistinctCategoryNames(categories) /\ UniqueCauseNames(categories)
    /\ Len(categories) >= 2
    /\ \E i \in 1..Len(categories) :
        /\ Len(categories[i].causes) >= 2
        /\ \E j \in 1..Len(categories[i].causes) :
            Len(categories[i].causes[j].subcauses) >= 2

\* C14 (as claimed): the problem statement imported from the exported sheet
\* is the exported state's problem statement, whatever text
\* SET_PROBLEM_STATEMENT stored, the empty text included.
C14_StatementRoundTrip ==
    lastCmd.type = "EXPORT" =>
        importFromExcel(lastCmd.file, nextGen).data.problemStatement = problemStatement

\* The place in the sheet of the row of category i, of its cause j, of the
\* subcause k of that cause, the rows counted from 1 in pre-order.
CategoryRowAt(cats, i) ==
    2 + SumSeq([h \in 1..(i - 1) |-> CategorySize(cats[h])])
CauseRowAt(cats, i, j) ==
    CategoryRowAt(cats, i) + 1
        + SumSeq([h \in 1..(j - 1) |-> CauseSize(cats[i].causes[h])])
SubcauseRowAt(cats, i, j, k) == CauseRowAt(cats, i, j) + k

\* C15: export writes 1 + categories + causes + subcauses rows in pre-order:
\* the problem statement row (Category 'PROBLEM STATEMENT', Cause the problem
\* statement, X 800, Y 250), then each category's row (Cause and Subcause
\* empty, its x and y), followed by the rows of its causes (Subcause empty,
\* the cause's x, y and comment), each followed by the rows of its subcauses
\* (the three names, the subcause's x, y and comment); the state is unchanged.
C15_ExportRows ==
    lastCmd.type = "EXPORT" =>
        LET rows == lastCmd.file.rows IN
        /\ State = before
        /\ lastCmd.file.kind = "sheet"
        /\ Len(rows) = 1 + Len(categories) + Len(CausesOf(categories))
                         + Len(SubcausesOf(categories))
        /\ rows[1] = [Category |-> "PROBLEM STATEMENT", Cause |-> problemStatement,
                      Subcause |-> "", Comments |-> "",
                      X |-> Num(800), Y |-> Num(250)]
        /\ \A i \in 1..Len(categories) :
            LET cat == categories[i]
                r == rows[CategoryRowAt(categories, i)] IN
            /\ r.Category = cat.name /\ r.Cause = "" /\ r.Subcause = ""
            /\ r.X = Num(cat.x) /\ r.Y = Num(cat.y)
            /\ \A j \in 1..Len(cat.causes) :
                LET cause == cat.causes[j]
                    rc == rows[CauseRowAt(categories, i, j)] IN
                /\ rc.Category = cat.name /\ rc.Cause = cause.name /\ rc.Subcause = ""
                /\ rc.X = Num(cause.x) /\ rc.Y = Num(cause.y)
                /\ rc.Comments = cause.comment
                /\ \A k \in 1..Len(cause.subcauses) :
                    LET subcause == cause.subcauses[k]
                        rs == rows[SubcauseRowAt(categories, i, j, k)] IN
                    /\ rs.Category = cat.name /\ rs.Cause = cause.name
                    /\ rs.Subcause = subcause.name
                    /\ rs.X = Num(subcause.x) /\ rs.Y = Num(subcause.y)
                    /\ rs.Comments = subcause.comment

\* A diagram was exported in which a category with causes and commented
\* subcauses is followed by another category.
C15_Witness ==
    /\ lastCmd.type = "EXPORT"
    /\ Len(lastCmd.file.rows) >= 7
    /\ \E i \in 1..(Len(categories) - 1) :
        \E j \in 1..Len(categories[i].causes) :
            \E k \in 1..Len(categories[i].causes[j].subcauses) :
                categories[i].causes[j].subcauses[k].comment # ""

\* C16 (as claimed): every category of an imported diagram carries a spineX,
\* and export writes a SpineX column holding the category's spineX on every
\* category row.
C16_SpineXOnSheet ==
    /\ lastCmd.type = "LOAD_FROM_DATA" =>
        \A i \in 1..Len(categories) : "spineX" \in DOMAIN categories[i]
    /\ lastCmd.type = "EXPORT" =>
        \A i \in 1..Len(categories) :
            LET r == lastCmd.file.rows[CategoryRowAt(categories, i)] IN
            /\ "SpineX" \in DOMAIN r
            /\ "spineX" \in DOMAIN categories[i]
            /\ r.SpineX = Num(categories[i].spineX)

\* The rows of a sheet, by number, that name a category / a cause of a
\* category / a subcause of that cause; the first of a set of row numbers
\* and the m-th of them.
RowsOfCategory(rows, category) ==
    {n \in 1..Len(rows) : rows[n].Category = category}
RowsOfCause(rows, category, cause) ==
    {n \in RowsOfCategory(rows, category) : rows[n].Cause = cause}
SubcauseRowsOf(rows, category, cause) ==
    {n \in RowsOfCause(rows, category, cause) : rows[n].Subcause # ""}
First(S) == CHOOSE n \in S : \A m \in S : n <= m
Nth(S, m) == CHOOSE n \in S : Cardinality({p \in S : p < n}) = m - 1

\* The names of categories the rows of a sheet mention.
CategoriesNamed(rows) ==
    {rows[n].Category : n \in 1..Len(rows)} \ {"", "PROBLEM STATEMENT"}

\* C17: on import each category holds one cause per distinct cause name its
\* rows give, made by the first row that names it, and each cause holds one
\* subcause per row that names the category and the cause with a non-empty
\* Subcause, also when several of these rows give the same subcause name.
C17_CausesByNameSubcausesByRow ==
    lastCmd.type = "LOAD_FROM_DATA" =>
        LET rows == lastCmd.file.rows IN
        /\ UniqueCauseNames(categories)
        /\ \A i \in 1..Len(categories) :
            LET cat == categories[i] IN
            /\ Range(NamesOf(cat.causes))
                 = {rows[n].Cause : n \in RowsOfCategory(rows, cat.name)} \ {""}
            /\ \A j \in 1..Len(cat.causes) :
                LET cause == cat.causes[j]
                    first == rows[First(RowsOfCause(rows, cat.name, cause.name))]
                    subs == SubcauseRowsOf(rows, cat.name, cause.name) IN
                /\ cause.x = parseFloatOrZero(first.X)
                /\ cause.y = parseFloatOrZero(first.Y)
                /\ Len(cause.subcauses) = Cardinality(subs)
                /\ \A k \in 1..Len(cause.subcauses) :
                    cause.subcauses[k].name = rows[Nth(subs, k)].Subcause

\* A sheet was imported in which two rows give the same category, cause and
\* subcause names.
C17_Witness ==
    /\ lastCmd.type = "LOAD_FROM_DATA"
    /\ \E n1, n2 \in 1..Len(lastCmd.file.rows) :
        LET r1 == lastCmd.file.rows[n1]  r2 == lastCmd.file.rows[n2] IN
        /\ n1 < n2
        /\ r1.Category \in CategoriesNamed(lastCmd.file.rows)
        /\ r1.Category = r2.Category /\ r1.Cause = r2.Cause
        /\ r1.Subcause # "" /\ r1.Subcause = r2.Subcause
    /\ \E j \in 1..Len(CausesOf(categories)) :
        Len(CausesOf(categories)[j].subcauses) >= 2

\* C18: on import the categories are the names the rows mention, the empty
\* name and 'PROBLEM STATEMENT' left out, each made once, in the order of
\* first mention, at the X/Y of the first row that mentions it, whether that
\* row is a category row or a cause or subcause row.
C18_CategoryFromFirstRow ==
    lastCmd.type = "LOAD_FROM_DATA" =>
        LET rows == lastCmd.file.rows IN
        /\ DistinctCategoryNames(categories)
        /\ Range(NamesOf(categories)) = CategoriesNamed(rows)
        /\ \A i \in 1..Len(categories) :
            LET first == First(RowsOfCategory(rows, categories[i].name)) IN
            /\ categories[i].x = parseFloatOrZero(rows[first].X)
            /\ categories[i].y = parseFloatOrZero(rows[first].Y)
            /\ \A h \in 1..(i - 1) :
                First(RowsOfCategory(rows, categories[h].name)) < first

\* A sheet was imported in which the first row of a category is a cause or
\* subcause row and a later row of the category gives another position.
C18_Witness ==
    /\ lastCmd.type = "LOAD_FROM_DATA"
    /\ \E i \in 1..Len(categories) :
        LET rows == lastCmd.file.rows
            mine == RowsOfCategory(rows, categories[i].name) IN
        /\ rows[First(mine)].Cause # ""
        /\ \E n \in mine : rows[n].X # rows[First(mine)].X

\* C19: on import the Comments of a row with a Subcause are the comment of
\* the subcause the row makes and never reach the cause; the comment of a
\* cause is the first non-empty Comments among its rows without Subcause
\* (none: the empty comment), so a later such row does not replace it.
C19_CommentOnDeepestLevel ==
    lastCmd.type = "LOAD_FROM_DATA" =>
        LET rows == lastCmd.file.rows IN
        \A i \in 1..Len(categories) :
            \A j \in 1..Len(categories[i].causes) :
                LET cat == categories[i]
                    cause == cat.causes[j]
                    subs == SubcauseRowsOf(rows, cat.name, cause.name)
                    commented == {n \in RowsOfCause(rows, cat.name, cause.name) \ subs :
                                    rows[n].Comments # ""} IN
                /\ cause.comment =
                     IF commented = {} THEN "" ELSE rows[First(commented)].Comments
                /\ \A k \in 1..Len(cause.subcauses) :
                    cause.subcauses[k].comment = rows[Nth(subs, k)].Comments

\* A sheet was imported in which two rows without Subcause give one cause
\* two different comments.
C19_Witness ==
    /\ lastCmd.type = "LOAD_FROM_DATA"
    /\ \E n1, n2 \in 1..Len(lastCmd.file.rows) :
        LET r1 == lastCmd.file.rows[n1]  r2 == lastCmd.file.rows[n2] IN
        /\ n1 < n2
        /\ r1.Category \in CategoriesNamed(lastCmd.file.rows)
        /\ r1.Category = r2.Category /\ r1.Cause # "" /\ r1.Cause = r2.Cause
        /\ r1.Subcause = "" /\ r2.Subcause = ""
        /\ r1.Comments # "" /\ r2.Comments # "" /\ r1.Comments # r2.Comments

\* A cell parseFloat makes no number of: text that is not numeric, or no cell.
Unparseable(cell) == cell.t = "s" /\ cell.v \notin DOMAIN NumericTexts
ZeroIfUnparseable(cell) == IF Unparseable(cell) THEN Num(0) ELSE cell
\* The rows with 0 written in every X and Y that parseFloat makes no number of.
Zeroed(rows) ==
    [n \in 1..Len(rows) |->
        [rows[n] EXCEPT !.X = ZeroIfUnparseable(@), !.Y = ZeroIfUnparseable(@)]]

\* C20: on import a row whose X or Y is absent or no number gives 0 on that
\* axis to every entity made from it; the import succeeds, with the result
\* it has when the sheet holds 0 in these cells.
C20_UnparseableIsZero ==
    lastCmd.type = "LOAD_FROM_DATA" =>
        LET rows == lastCmd.file.rows
            zeroed == parseExcelData(Zeroed(rows), 1).data IN
        /\ importFromExcel(lastCmd.file, 1).resolved
        /\ problemStatement = zeroed.problemStatement
        /\ SameTree(categories, zeroed.categories)
        /\ \A i \in 1..Len(categories) :
            LET cat == categories[i]
                made == rows[First(RowsOfCategory(rows, cat.name))] IN
            /\ Unparseable(made.X) => cat.x = 0
            /\ Unparseable(made.Y) => cat.y = 0
            /\ \A j \in 1..Len(cat.causes) :
                LET cause == cat.causes[j]
                    madeCause == rows[First(RowsOfCause(rows, cat.name, cause.name))]
                    subs == SubcauseRowsOf(rows, cat.name, cause.name) IN
                /\ Unparseable(madeCause.X) => cause.x = 0
                /\ Unparseable(madeCause.Y) => cause.y = 0
                /\ \A k \in 1..Len(cause.subcauses) :
                    /\ Unparseable(rows[Nth(subs, k)].X) => cause.subcauses[k].x = 0
                    /\ Unparseable(rows[Nth(subs, k)].Y) => cause.subcauses[k].y = 0

\* A sheet was imported in which a row without a number in X and without Y
\* made a category, a cause and a subcause, and another row gave numbers.
C20_Witness ==
    /\ lastCmd.type = "LOAD_FROM_DATA"
    /\ LET rows == lastCmd.file.rows IN
        /\ Len(rows) >= 2
        /\ Unparseable(rows[1].X) /\ Unparseable(rows[1].Y)
        /\ rows[1].Category \in CategoriesNamed(rows)
        /\ rows[1].Cause # "" /\ rows[1].Subcause # ""
        /\ ~Unparseable(rows[2].X) /\ rows[2].Category = rows[1].Category
    /\ Len(SubcausesOf(categories)) >= 1

\* Every category holds a list of causes and every cause a list of
\* subcauses, beside the fields the canvas reads.
WellFormed(state) ==
    /\ {"problemStatement", "categories"} \subseteq DOMAIN state
    /\ \A i \in 1..Len(state.categories) :
        LET cat == state.categories[i] IN
        /\ {"id", "name", "x", "y", "causes"} \subseteq DOMAIN cat
        /\ \A j \in 1..Len(cat.causes) :
            LET cause == cat.causes[j] IN
            /\ {"id", "name", "x", "y", "comment", "subcauses"} \subseteq DOMAIN cause
            /\ \A k \in 1..Len(cause.subcauses) :
                {"id", "name", "x", "y", "comment"} \subseteq DOMAIN cause.subcauses[k]

\* Does fishboneReducer(state, a) raise a TypeError?  It reads cat.causes of
\* the category a.categoryId names (to spread, map or filter it) in the
\* commands on causes and subcauses, and cause.subcauses of the cause
\* a.causeId names in the commands on subcauses.
Throws(state, a) ==
    \/ /\ a.type \in {"ADD_CAUSE", "UPDATE_CAUSE", "DELETE_CAUSE",
                      "ADD_SUBCAUSE", "UPDATE_SUBCAUSE", "DELETE_SUBCAUSE"}
       /\ \E i \in 1..Len(state.categories) :
            /\ state.categories[i].id = a.categoryId
            /\ "causes" \notin DOMAIN state.categories[i]
    \/ /\ a.type \in {"ADD_SUBCAUSE", "UPDATE_SUBCAUSE", "DELETE_SUBCAUSE"}
       /\ \E i \in 1..Len(state.categories) :
            /\ state.categories[i].id = a.categoryId
            /\ "causes" \in DOMAIN state.categories[i]
            /\ \E j \in 1..Len(state.categories[i].causes) :
                /\ state.categories[i].causes[j].id = a.causeId
                /\ "subcauses" \notin DOMAIN state.categories[i].causes[j]

\* The payloads of the commands on causes and subcauses with any ids: a
\* categoryId that is the id of a category or of none (0), and a causeId that
\* is the id of a cause, of whichever category, or of none.
AnyCategoryIds == {categories[i].id : i \in 1..Len(categories)} \cup {0}
AnyCauseIds ==
    {CausesOf(categories)[j].id : j \in 1..Len(CausesOf(categories))} \cup {0}
AnyCommands ==
    {[type |-> t, categoryId |-> c, causeId |-> k] :
        t \in PathCommands, c \in AnyCategoryIds, k \in AnyCauseIds}

\* C21: in every reachable state the reducer raises no error on any command,
\* whatever ids its payload carries, and what it returned is a state; on an
\* action of unknown type it returns the state it was given.
C21_ReducerTotal ==
    /\ WellFormed(State)
    /\ \A a \in AnyCommands : ~Throws(State, a)
    /\ fishboneReducer(State, Cmd("NO_SUCH_ACTION"), uuidv4, 0, 0) = State

\* A command whose path names no node was applied to a diagram with
\* categories, causes and subcauses.
C21_Witness ==
    /\ lastCmd.type \in PathCommands
    /\ ~Resolves(before.categories, lastCmd)
    /\ Len(SubcausesOf(categories)) >= 1

\* The captured node's place in a diagram: the nodes of its type and id
\* under the parents the capture names.
NodesAt(cats, node) ==
    CASE node.type = "category" ->
            {Captured(cats[i], "category", 0, 0) :
                i \in {i \in 1..Len(cats) : cats[i].id = node.id}}
      [] node.type = "cause" ->
            UNION {{Captured(cats[i].causes[j], "cause", cats[i].id, 0) :
                        j \in {j \in 1..Len(cats[i].causes) :
                                cats[i].causes[j].id = node.id}} :
                   i \in {i \in 1..Len(cats) : cats[i].id = node.categoryId}}
      [] node.type = "subcause" ->
            UNION {UNION {{Captured(cats[i].causes[j].subcauses[k], "subcause",
                                    cats[i].id, cats[i].causes[j].id) :
                              k \in {k \in 1..Len(cats[i].causes[j].subcauses) :
                                      cats[i].causes[j].subcauses[k].id = node.id}} :
                          j \in {j \in 1..Len(cats[i].causes) :
                                  cats[i].causes[j].id = node.causeId}} :
                   i \in {i \in 1..Len(cats) : cats[i].id = node.categoryId}}
      [] OTHER -> {}

PositionUpdates == {"UPDATE_CATEGORY", "UPDATE_CAUSE", "UPDATE_SUBCAUSE"}

\* The last step was a mouse-move of a drag: it dispatched a position update.
DragMoved == lastCmd.type \in PositionUpdates /\ DOMAIN lastCmd.updates = {"x", "y"}

\* C22: mouse-down on a node starts a drag session and captures the offset
\* of the pointer from the node; a mouse-move of the session dispatches one
\* position update, which puts the dragged node at the pointer minus the
\* offset, that is as far from where it was captured as the pointer is from
\* where it went down; mouse-up ends the session; a mouse-move outside a
\* session leaves the diagram as it is.
C22_DragSession ==
    /\ lastCmd.type = "MOUSE_DOWN" =>
        /\ dragState.isDragging
        /\ dragState.nodeData \in NodesAt(categories, dragState.nodeData)
        /\ dragState.offset = <<lastCmd.pointer[1] - dragState.nodeData.x,
                                lastCmd.pointer[2] - dragState.nodeData.y>>
        /\ State = before
    /\ DragMoved =>
        /\ dragState.isDragging
        /\ lastCmd = [UpdateOf(dragState.nodeData, lastCmd.updates)
                        EXCEPT !.pointer = lastCmd.pointer]
        /\ lastCmd.updates = [x |-> lastCmd.pointer[1] - dragState.offset[1],
                              y |-> lastCmd.pointer[2] - dragState.offset[2]]
        /\ problemStatement = before.problemStatement
        /\ CountEntities(categories) = CountEntities(before.categories)
        /\ \A n \in NodesAt(categories, dragState.nodeData) :
            /\ n.x = lastCmd.pointer[1] - dragState.offset[1]
            /\ n.y = lastCmd.pointer[2] - dragState.offset[2]
            /\ n.x - dragState.nodeData.x = lastCmd.pointer[1] - grab.pointer[1]
            /\ n.y - dragState.nodeData.y = lastCmd.pointer[2] - grab.pointer[2]
    /\ lastCmd.type = "MOUSE_UP" => ~dragState.isDragging /\ State = before
    /\ lastCmd.type = "MOUSE_MOVE" => ~dragState.isDragging /\ State = before

\* A node was dragged away from where it was, after the pointer had gone
\* down off its centre.
C22_Witness ==
    /\ DragMoved
    /\ before # State
    /\ dragState.offset # <<0, 0>>
    /\ lastCmd.pointer # grab.pointer
    /\ NodesAt(categories, dragState.nodeData) # {}

\* The hover toolbar is rendered while hoveredNode is set.
ToolbarShown == hoveredNode # NoNode

\* C23 (as claimed): when the pointer has just left a hovered node the
\* toolbar is still displayed (it is hidden only a grace delay later, and
\* only if the pointer entered neither the toolbar nor a node meanwhile).
C23_ToolbarGraceDelay ==
    lastCmd.type = "MOUSE_LEAVE" => ToolbarShown

canvasHeight == 800

Abs(n) == IF n < 0 THEN 0 - n ELSE n
Last(s) == s[Len(s)]

\* C24: ADD_CATEGORY appends a category named 'New Category' without causes,
\* at x in [300, 500) and y in [200, 400), inside the canvas, with spineX
\* 300 + 100 * (number of categories before); ADD_CAUSE appends to the
\* category a cause named 'New Cause' with empty comment and no subcauses,
\* within 50 of the category on each axis; ADD_SUBCAUSE appends to the cause
\* a subcause named 'New Subcause' with empty comment, within 30 of the
\* cause on each axis.
C24_AddedNodes ==
    /\ lastCmd.type = "ADD_CATEGORY" =>
        LET new == Last(categories) IN
        /\ categories = Append(before.categories, new)
        /\ new.name = "New Category" /\ new.causes = <<>>
        /\ 300 <= new.x /\ new.x < 500 /\ new.x <= canvasWidth
        /\ 200 <= new.y /\ new.y < 400 /\ new.y <= canvasHeight
        /\ new.spineX = 300 + 100 * Len(before.categories)
    /\ lastCmd.type = "ADD_CAUSE" =>
        \A i \in 1..Len(before.categories) :
            before.categories[i].id = lastCmd.categoryId =>
                LET cat == before.categories[i]
                    new == Last(categories[i].causes) IN
                /\ categories[i].causes = Append(cat.causes, new)
                /\ new.name = "New Cause" /\ new.comment = "" /\ new.subcauses = <<>>
                /\ Abs(new.x - cat.x) <= 50 /\ Abs(new.y - cat.y) <= 50
    /\ lastCmd.type = "ADD_SUBCAUSE" =>
        \A i \in 1..Len(before.categories) :
            before.categories[i].id = lastCmd.categoryId =>
                \A j \in 1..Len(before.categories[i].causes) :
                    before.categories[i].causes[j].id = lastCmd.causeId =>
                        LET cause == before.categories[i].causes[j]
                            new == Last(categories[i].causes[j].subcauses) IN
                        /\ categories[i].causes[j].subcauses
                             = Append(cause.subcauses, new)
                        /\ new.name = "New Subcause" /\ new.comment = ""
                        /\ Abs(new.x - cause.x) <= 30 /\ Abs(new.y - cause.y) <= 30

\* A subcause was added at the far end of its range, 30 left of its cause.
C24_Witness ==
    /\ lastCmd.type = "ADD_SUBCAUSE"
    /\ Len(SubcausesOf(categories)) = Len(SubcausesOf(before.categories)) + 1
    /\ \E j \in 1..Len(CausesOf(categories)) :
        LET cause == CausesOf(categories)[j] IN
        /\ cause.id = lastCmd.causeId
        /\ Last(cause.subcauses).x = cause.x - 30

\* C25: after LOAD_FROM_DATA with what an import produced, problemStatement
\* and categories are the payload's, and no category, cause or subcause of
\* the diagram before it is left, whatever that diagram was.
C25_LoadFromDataReplaces ==
    lastCmd.type = "LOAD_FROM_DATA" =>
        /\ {"problemStatement", "categories"} \subseteq DOMAIN lastCmd.payload
        /\ problemStatement = lastCmd.payload.problemStatement
        /\ categories = lastCmd.payload.categories
        /\ Range(AllIds(categories)) \cap Range(AllIds(before.categories)) = {}
        /\ NodeSet(categories) \cap NodeSet(before.categories) = {}

\* A sheet with categories was loaded over a diagram with categories and an
\* edited problem statement.
C25_Witness ==
    /\ lastCmd.type = "LOAD_FROM_DATA"
    /\ before.categories # <<>>
    /\ before.problemStatement \notin {"Problem Statement", problemStatement}
    /\ categories # <<>>

\* Is the node (level, parent, fields) the one the path of the update names?
IsTarget(n, a) ==
    CASE a.type = "UPDATE_CATEGORY" -> n[1] = "category" /\ n[3].id = a.categoryId
      [] a.type = "UPDATE_CAUSE" ->
            n[1] = "cause" /\ n[2] = a.categoryId /\ n[3].id = a.causeId
      [] a.type = "UPDATE_SUBCAUSE" ->
            /\ n[1] = "subcause" /\ n[2] = a.causeId /\ n[3].id = a.subcauseId
            /\ HasCause(before.categories, a.categoryId, a.causeId)
      [] OTHER -> FALSE

\* The fields `updates` names have its values, the others those of `old`.
OnlyNamedFieldsChanged(old, new, updates) ==
    /\ DOMAIN new = DOMAIN old \cup DOMAIN updates
    /\ \A f \in DOMAIN new :
        new[f] = IF f \in DOMAIN updates THEN updates[f] ELSE old[f]

\* C26: a rename, a position update or a comment save changes the named
\* fields of the one node its path names and nothing else: the node keeps
\* its id and its children, every other category, cause and subcause is as
\* it was, and so is problemStatement; SET_PROBLEM_STATEMENT changes
\* problemStatement and leaves the categories as they were.
C26_UpdateFrame ==
    /\ lastCmd.type \in PositionUpdates =>
        /\ problemStatement = before.problemStatement
        /\ AllIds(categories) = AllIds(before.categories)
        /\ "id" \notin DOMAIN lastCmd.updates
        /\ \A n \in NodeSet(categories) :
            \/ n \in NodeSet(before.categories)
            \/ /\ IsTarget(n, lastCmd)
               /\ \E o \in NodeSet(before.categories) :
                    /\ o[1] = n[1] /\ o[2] = n[2] /\ o[3].id = n[3].id
                    /\ OnlyNamedFieldsChanged(o[3], n[3], lastCmd.updates)
        /\ \A o \in NodeSet(before.categories) :
            ~IsTarget(o, lastCmd) => o \in NodeSet(categories)
    /\ lastCmd.type = "SET_PROBLEM_STATEMENT" =>
        /\ problemStatement = lastCmd.text
        /\ categories = before.categories

\* A cause with a subcause was renamed, moved or commented in a diagram
\* with other categories.
C26_Witness ==
    /\ lastCmd.type = "UPDATE_CAUSE"
    /\ State # before
    /\ Len(categories) >= 2
    /\ \E j \in 1..Len(CausesOf(categories)) :
        /\ CausesOf(categories)[j].id = lastCmd.causeId
        /\ CausesOf(categories)[j].subcauses # <<>>

C28_SpineXDistinct ==
    \A i1, i2 \in 1..Len(categories) :
        categories[i1].spineX = categories[i2].spineX => i1 = i2

\* C29 (as claimed): a position update of a drag whose node was deleted, or
\* was replaced with the diagram (CLEAR_DIAGRAM, LOAD_TEMPLATE,
\* LOAD_FROM_DATA), after the mouse-down that captured it leaves
\* problemStatement and categories as they were.
C29_StaleCommandHarmless ==
    (/\ DragMoved
     /\ \/ replacedAt > grab.step
        \/ ~Resolves(before.categories, lastCmd))
        => State = before

\* The cause names the rows of the categories named `name` carry.
CauseNamesUnder(cats, name) ==
    UNION {Range(NamesOf(cats[i].causes)) :
            i \in {i \in 1..Len(cats) : cats[i].name = name}} \ {""}

====
